---- MODULE Spec2Model ----
(***************************************************************************)
(* Model of getChanges (src/src/index.ts): staging, diff generation and    *)
(* the parsing of the raw unified diff into Change records.                *)
(*                                                                         *)
(* A JavaScript string is a sequence of one-character strings, so that     *)
(* split, replace, startsWith and the two regular expressions are computed *)
(* character by character, as the code computes them.                      *)
(* An optional value (T | undefined) is a sequence of length 0 or 1.       *)
(***************************************************************************)
EXTENDS Integers, Sequences, FiniteSets, TLC

VARIABLES
    pc,            \* position in getChanges (index.ts:12-177)
    calls,         \* execFileSync calls made so far, with their outcome (23, 44)
    thrown,        \* the exception that left getChanges, "none" if none
    errors,        \* messages written with console.error, in order
    input,         \* description of the raw diff git returned (44)
    diffOut,       \* the raw diff text (42-45)
    changedFiles,  \* the per-file texts (58)
    fileIdx,       \* next element of changedFiles to parse (61)
    changes,       \* the Set<Change> being built (57, 170)
    origin         \* for each record, the file and chunk pair it was added for

vars == <<pc, calls, thrown, errors, input, diffOut, changedFiles, fileIdx,
          changes, origin>>

(***************************************************************************)
(* Bound of the model: hunks in one raw diff, over all its file sections.  *)
(***************************************************************************)
MaxHunks == 2

(***************************************************************************)
(* String literals of the code and of the diff format.                     *)
(***************************************************************************)
NL == "\n"
EmptyStr == <<>>
DiffGit == <<"d","i","f","f"," ","-","-","g","i","t">>
Dashes == <<"-","-","-">>
OldPrefix == <<"-","-","-"," ","a","/">>
NewPrefix == <<"+","+","+"," ","b","/">>
DevNull == <<"/","d","e","v","/","n","u","l","l">>
Digits == <<"0","1","2","3","4","5","6","7","8","9">>

IsDigit(c) == \E d \in 1..10 : Digits[d] = c

\* `const v = e; F(v)`: e is evaluated once and F applied to its value
Bind(e, F(_)) == CHOOSE r \in {F(v) : v \in {e}} : TRUE

\* undefined and a defined value v, for the optional values of the code
Undefined == <<>>
Some(v) == <<v>>
IsDefined(o) == Len(o) = 1
Value(o) == o[1]

(***************************************************************************)
(* String.prototype.startsWith, indexOf, split(string), replace(string),   *)
(* Array.prototype.join and filter((n) => n).                              *)
(***************************************************************************)
StartsWithAt(s, p, i) ==
    /\ i >= 1
    /\ i + Len(p) - 1 <= Len(s)
    /\ \A k \in 1..Len(p) : s[i + k - 1] = p[k]

StartsWith(s, p) == StartsWithAt(s, p, 1)

\* first index >= from where p occurs in s, 0 when there is none
Least(hits) == IF hits = {} THEN 0 ELSE CHOOSE k \in hits : \A j \in hits : k <= j

IndexOf(s, p, from) ==
    Bind({k \in from..(Len(s) - Len(p) + 1) : StartsWithAt(s, p, k)},
         LAMBDA hits : Least(hits))

RECURSIVE SplitFrom(_, _, _)
SplitFrom(s, sep, from) ==
    Bind(IndexOf(s, sep, from), LAMBDA k :
        IF k = 0
        THEN <<SubSeq(s, from, Len(s))>>
        ELSE <<SubSeq(s, from, k - 1)>> \o SplitFrom(s, sep, k + Len(sep)))

Split(s, sep) == Bind(s, LAMBDA str : SplitFrom(str, sep, 1))

\* filter((n) => n): the empty string is falsy
FilterNonEmpty(ss) == SelectSeq(ss, LAMBDA x : x # EmptyStr)

RECURSIVE Join(_, _)
Join(ss, sep) ==
    IF ss = <<>> THEN EmptyStr
    ELSE IF Len(ss) = 1 THEN ss[1]
    ELSE ss[1] \o sep \o Join(Tail(ss), sep)

\* s.replace(p, ""): removes the first occurrence of the string p
RemoveFirst(s, p) ==
    Bind(IndexOf(s, p, 1), LAMBDA k :
        IF k = 0 THEN s
        ELSE SubSeq(s, 1, k - 1) \o SubSeq(s, k + Len(p), Len(s)))

(***************************************************************************)
(* Number(digits) for a capture of \d+, and `Number(capture) || 1`.        *)
(***************************************************************************)
DigitVal(c) == (CHOOSE d \in 1..10 : Digits[d] = c) - 1

RECURSIVE NumberOf(_)
NumberOf(ds) ==
    IF ds = <<>> THEN 0
    ELSE NumberOf(SubSeq(ds, 1, Len(ds) - 1)) * 10 + DigitVal(ds[Len(ds)])

\* `capture === undefined ? 1 : Number(capture)` in place of `|| 1`
NumberOrOneNullish(cap) ==
    IF ~IsDefined(cap) THEN 1 ELSE NumberOf(Value(cap))

\* Number(undefined) is NaN; NaN and 0 are falsy, so `|| 1` yields 1 for both
NumberOrOne(cap) ==
    IF ~IsDefined(cap) THEN 1
    ELSE Bind(NumberOf(Value(cap)), LAMBDA n : IF n = 0 THEN 1 ELSE n)

(***************************************************************************)
(* The location pattern  -(\d+)(?:,(\d+))? \+(\d+)(?:,(\d+))?  matched at  *)
(* position i of s. \d+ is followed by a non-digit in every continuation   *)
(* of the pattern, so the greedy match is the only one.                    *)
(***************************************************************************)
RECURSIVE DigitsEnd(_, _)
DigitsEnd(s, i) ==
    IF i <= Len(s) /\ IsDigit(s[i]) THEN DigitsEnd(s, i + 1) ELSE i

NoLocation ==
    [ok |-> FALSE, end |-> 0, g1 |-> Undefined, g2 |-> Undefined,
     g3 |-> Undefined, g4 |-> Undefined]

\* \d+(?:,(\d+))? at position a: [ok, the index after it, the two texts]
RangeAt(s, a) ==
    Bind(DigitsEnd(s, a), LAMBDA e1 :
    Bind(IF e1 <= Len(s) /\ s[e1] = "," THEN DigitsEnd(s, e1 + 1) ELSE e1,
         LAMBDA e2 :
        IF e2 > e1 + 1
        THEN [ok |-> e1 > a, end |-> e2, start |-> SubSeq(s, a, e1 - 1),
              count |-> Some(SubSeq(s, e1 + 1, e2 - 1))]
        ELSE [ok |-> e1 > a, end |-> e1, start |-> SubSeq(s, a, e1 - 1),
              count |-> Undefined]))

LocationAt(s, i) ==
    IF ~(i >= 1 /\ i <= Len(s) /\ s[i] = "-") THEN NoLocation
    ELSE Bind(RangeAt(s, i + 1), LAMBDA old :
         IF ~(old.ok /\ StartsWithAt(s, <<" ", "+">>, old.end)) THEN NoLocation
         ELSE Bind(RangeAt(s, old.end + 2), LAMBDA new :
              IF ~new.ok THEN NoLocation
              ELSE [ok |-> TRUE, end |-> new.end,
                    g1 |-> Some(old.start), g2 |-> old.count,
                    g3 |-> Some(new.start), g4 |-> new.count]))

\* s.match(locationRegExp): the leftmost match, or null (ok = FALSE)
LocationMatch(s) ==
    Bind(s, LAMBDA str :
    Bind(Least({k \in 1..Len(str) : LocationAt(str, k).ok}), LAMBDA k :
        LocationAt(str, k)))

(***************************************************************************)
(* split(/@@ (-\d+(?:,\d+)? \+\d+(?:,\d+)?) @@/): the text between the     *)
(* matches, interleaved with the captured location text.                   *)
(***************************************************************************)
\* end of a match of the hunk pattern starting at i (index after it), or 0
HunkMarkEnd(s, i) ==
    IF ~StartsWithAt(s, <<"@", "@", " ">>, i) THEN 0
    ELSE Bind(LocationAt(s, i + 3), LAMBDA loc :
         IF loc.ok /\ StartsWithAt(s, <<" ", "@", "@">>, loc.end)
         THEN loc.end + 3
         ELSE 0)

RECURSIVE SplitHunksFrom(_, _)
SplitHunksFrom(s, from) ==
    Bind(Least({k \in from..Len(s) : HunkMarkEnd(s, k) # 0}), LAMBDA k :
        IF k = 0
        THEN <<SubSeq(s, from, Len(s))>>
        ELSE Bind(HunkMarkEnd(s, k), LAMBDA e :
             <<SubSeq(s, from, k - 1), SubSeq(s, k + 3, e - 4)>>
                 \o SplitHunksFrom(s, e)))

SplitHunks(s) == Bind(s, LAMBDA str : SplitHunksFrom(str, 1))

(***************************************************************************)
(* The three marker-stripping replaces of the hunk-body walk.              *)
(***************************************************************************)
\* line.replace(/- ?/, "") and line.replace(/\+ ?/, ""): the first marker
\* character of the line and at most one space after it
StripMarker(line, marker) ==
    Bind(IndexOf(line, <<marker>>, 1), LAMBDA k :
        IF k = 0 THEN line
        ELSE IF k + 1 <= Len(line) /\ line[k + 1] = " "
        THEN SubSeq(line, 1, k - 1) \o SubSeq(line, k + 2, Len(line))
        ELSE SubSeq(line, 1, k - 1) \o SubSeq(line, k + 1, Len(line)))

\* line.replace(/ ? ?/, ""): matches at the start of the line, greedily taking
\* up to two spaces (the empty match when the line starts with none)
StripContext(line) ==
    IF StartsWith(line, <<" ", " ">>) THEN SubSeq(line, 3, Len(line))
    ELSE IF StartsWith(line, <<" ">>) THEN SubSeq(line, 2, Len(line))
    ELSE line

(***************************************************************************)
(* Messages of console.error, in the order they are written.               *)
(***************************************************************************)
ErrStaging == "Error staging changes"
ErrDiff == "Error running git diff"
ErrFileNames == "Error parsing file names"
ErrLocation == "Error parsing location information"
ErrFromUndefined == "Error: fromFile is undefined"
ErrToUndefined == "Error: toFile is undefined"

(***************************************************************************)
(* Per-file parsing.                                                       *)
(***************************************************************************)
\* while (!lines[0].startsWith("---")) lines.shift();
\* lines[0] is undefined once the lines are used up: a TypeError
RECURSIVE SkipHeaderLines(_)
SkipHeaderLines(lines) ==
    IF lines = <<>> THEN [threw |-> TRUE, lines |-> <<>>]
    ELSE IF StartsWith(lines[1], Dashes) THEN [threw |-> FALSE, lines |-> lines]
    ELSE SkipHeaderLines(Tail(lines))

\* lines.shift()?.replace(prefix, "")
ShiftName(lines, prefix) ==
    IF lines = <<>> THEN Undefined ELSE Some(RemoveFirst(lines[1], prefix))

IsAddedFile(fromFileName, toFileName) == fromFileName = DevNull

IsDeletedFile(fromFileName, toFileName) ==
    /\ fromFileName # DevNull
    /\ toFileName = DevNull

FileChange(name, start, count) ==
    [name |-> name, start_line |-> start, line_count |-> count,
     content |-> EmptyStr]

MakeFromFile(isAddedFile, fromFileName, m) ==
    IF ~isAddedFile
    THEN Some(FileChange(fromFileName, NumberOf(Value(m.g1)), NumberOrOne(m.g2)))
    ELSE Undefined

\* `if (isDeletedFile)` in place of `if (!isDeletedFile)`
MakeToFileNegated(isDeletedFile, toFileName, m) ==
    IF isDeletedFile
    THEN Some(FileChange(toFileName, NumberOf(Value(m.g3)), NumberOrOne(m.g4)))
    ELSE Undefined

MakeToFile(isDeletedFile, toFileName, m) ==
    IF ~isDeletedFile
    THEN Some(FileChange(toFileName, NumberOf(Value(m.g3)), NumberOrOne(m.g4)))
    ELSE Undefined

AppendContent(file, text) ==
    Some([Value(file) EXCEPT !.content = @ \o text \o <<NL>>])

\* the while loop over changedLines
\* one pass of the while loop over changedLines; w holds fromFile, toFile and
\* the errors written so far
WalkLine(line, w) ==
    IF StartsWith(line, <<"-">>)
    THEN IF ~IsDefined(w.fromFile)
         THEN [w EXCEPT !.errs = Append(@, ErrFromUndefined)]
         ELSE [w EXCEPT !.fromFile = AppendContent(@, StripMarker(line, "-"))]
    ELSE IF StartsWith(line, <<"+">>)
    THEN IF ~IsDefined(w.toFile)
         THEN [w EXCEPT !.errs = Append(@, ErrToUndefined)]
         ELSE [w EXCEPT !.toFile = AppendContent(@, StripMarker(line, "+"))]
    ELSE IF ~IsDefined(w.fromFile)
    THEN [w EXCEPT !.errs = Append(@, ErrFromUndefined)]
    ELSE IF ~IsDefined(w.toFile)
    THEN [w EXCEPT !.errs = Append(@, ErrToUndefined)]
    ELSE [w EXCEPT !.fromFile = AppendContent(@, StripContext(line)),
                   !.toFile = AppendContent(@, StripContext(line))]

RECURSIVE WalkLines(_, _)
WalkLines(changedLines, w) ==
    IF changedLines = <<>> THEN w
    ELSE Bind(WalkLine(Head(changedLines), w), LAMBDA w2 :
         Bind(Tail(changedLines), LAMBDA rest : WalkLines(rest, w2)))

\* index of the chunk whose text gives the location of the pair starting at i
\* (positions are 1-based here: the code's diffChunks[0] is diffChunks[1])
LocationChunk(i) == 1

\* for (let i = 0; i < diffChunks.length; i += 2): acc holds the records
\* added so far, the pair each came from, and the errors written.
\* diffChunks[i + 1] is undefined past the end: .split on it is a TypeError.
\* one pass of the loop for the pair of chunks starting at i: f holds the
\* file names and the two flags, acc the records added so far, the pair each
\* came from, and the errors written.
\* diffChunks[i + 1] is undefined past the end: .split on it is a TypeError.
ChunkStep(diffChunks, i, f, acc) ==
    Bind(LocationMatch(diffChunks[LocationChunk(i)]), LAMBDA m :
        IF ~m.ok THEN [acc EXCEPT !.errs = Append(@, ErrLocation)]
        ELSE IF i + 1 > Len(diffChunks) THEN [acc EXCEPT !.threw = TRUE]
        ELSE Bind(WalkLines(Split(diffChunks[i + 1], <<NL>>),
                            [fromFile |-> MakeFromFile(f.isAddedFile,
                                                       f.fromFileName, m),
                             toFile |-> MakeToFile(f.isDeletedFile,
                                                   f.toFileName, m),
                             errs |-> acc.errs]),
                  LAMBDA w :
                      [acc EXCEPT
                         !.recs = Append(@, [fromFile |-> w.fromFile,
                                             toFile |-> w.toFile]),
                         !.pairs = Append(@, (i + 1) \div 2),
                         !.errs = w.errs]))

\* for (let i = 0; i < diffChunks.length; i += 2)
RECURSIVE ChunkLoop(_, _, _, _)
ChunkLoop(diffChunks, i, f, acc) ==
    IF i > Len(diffChunks) \/ acc.threw THEN acc
    ELSE Bind(ChunkStep(diffChunks, i, f, acc), LAMBDA acc2 :
         Bind(i + 2, LAMBDA j : ChunkLoop(diffChunks, j, f, acc2)))

NoRecords == [threw |-> FALSE, recs |-> <<>>, pairs |-> <<>>, errs |-> <<>>]

\* lines 83-93: the two flags of a file section
Classify(fromFileName, toFileName) ==
    [fromFileName |-> fromFileName, toFileName |-> toFileName,
     isAddedFile |-> IsAddedFile(fromFileName, toFileName),
     isDeletedFile |-> IsDeletedFile(fromFileName, toFileName)]

\* lines 77-175, once the header lines are skipped
ParseSection(lines) ==
    Bind(ShiftName(lines, OldPrefix), LAMBDA fromName :
    Bind(IF lines = <<>> THEN <<>> ELSE Tail(lines), LAMBDA afterFrom :
    Bind(ShiftName(afterFrom, NewPrefix), LAMBDA toName :
    Bind(IF afterFrom = <<>> THEN <<>> ELSE Tail(afterFrom), LAMBDA afterTo :
        IF ~IsDefined(fromName) \/ ~IsDefined(toName)
        THEN [NoRecords EXCEPT !.errs = <<ErrFileNames>>]
        ELSE Bind(FilterNonEmpty(SplitHunks(Join(afterTo, <<NL>>))),
                  LAMBDA diffChunks :
             Bind(Classify(Value(fromName), Value(toName)), LAMBDA f :
                  ChunkLoop(diffChunks, 1, f, NoRecords)))))))

\* the body of `for (const fileDiff of changedFiles)`
ParseFile(fileDiff) ==
    Bind(SkipHeaderLines(FilterNonEmpty(Split(fileDiff, <<NL>>))),
         LAMBDA skipped :
             IF skipped.threw THEN [NoRecords EXCEPT !.threw = TRUE]
             ELSE ParseSection(skipped.lines))

(***************************************************************************)
(* The raw diffs the external tool hands back (execFileSync(git, args)),   *)
(* in the wire format of the comments at lines 74-76 and 106-107. A raw    *)
(* diff is described by its file sections, and a section by the kind of    *)
(* its header pair and its hunks; Render writes the text git would write.  *)
(* The description is kept in `input` so that the records can be compared  *)
(* with the hunks they come from.                                          *)
(***************************************************************************)
FileNames == <<"f", "g">>

\* header pairs a section can carry:
\*   modified         --- a/<file>      +++ b/<file>
\*   added            --- /dev/null     +++ b/<file>
\*   deleted          --- a/<file>      +++ /dev/null
\*   addedPrefixed    --- a//dev/null   +++ b/<file>
\*   deletedPrefixed  --- a/<file>      +++ b//dev/null
\*   noOld            no header line at all (mode change, pure rename, binary)
\*   oldOnly          --- a/<file>      and nothing after it
HunkKinds == {"modified", "added", "deleted", "addedPrefixed", "deletedPrefixed"}
BareKinds == {"noOld", "oldOnly"}

Ctx == <<" ","c","t","x">>
Old == <<"-","o","l","d">>
New == <<"+","n","e","w">>

Hunk(ok, oldStart, oldCount, newStart, newCount, body) ==
    [ok |-> ok, oldStart |-> oldStart, oldCount |-> oldCount,
     newStart |-> newStart, newCount |-> newCount, body |-> body]

\* @@ -5 +5 @@, @@ -10,2 +10,2 @@, @@ -0,0 +1,2 @@ and the malformed
\* @@ -x +y @@
HunkChoices ==
    { Hunk(TRUE, 5, Undefined, 5, Undefined, <<Old, New>>),
      Hunk(TRUE, 10, Some(2), 10, Some(2), <<Ctx, Old, New>>),
      Hunk(TRUE, 0, Some(0), 1, Some(2), <<New, New>>),
      Hunk(FALSE, 0, Undefined, 0, Undefined, <<Old>>) }

RECURSIVE ToDigits(_)
ToDigits(n) ==
    IF n < 10 THEN <<Digits[n + 1]>>
    ELSE ToDigits(n \div 10) \o <<Digits[(n % 10) + 1]>>

RenderRange(start, count) ==
    ToDigits(start)
        \o (IF IsDefined(count) THEN <<",">> \o ToDigits(Value(count)) ELSE <<>>)

RenderHunkHeader(h) ==
    IF h.ok
    THEN <<"@","@"," ","-">> \o RenderRange(h.oldStart, h.oldCount)
             \o <<" ","+">> \o RenderRange(h.newStart, h.newCount)
             \o <<" ","@","@">>
    ELSE <<"@","@"," ","-","x"," ","+","y"," ","@","@">>

RECURSIVE RenderHunks(_)
RenderHunks(hs) ==
    IF hs = <<>> THEN <<>>
    ELSE <<RenderHunkHeader(hs[1])>> \o hs[1].body \o RenderHunks(Tail(hs))

OldHeader(kind, file) ==
    IF kind = "added" THEN <<"-","-","-"," ">> \o DevNull
    ELSE IF kind = "addedPrefixed" THEN OldPrefix \o DevNull
    ELSE OldPrefix \o <<file>>

NewHeader(kind, file) ==
    IF kind = "deleted" THEN <<"+","+","+"," ">> \o DevNull
    ELSE IF kind = "deletedPrefixed" THEN NewPrefix \o DevNull
    ELSE NewPrefix \o <<file>>

SectionLines(sec) ==
    <<DiffGit \o <<" ","a","/",sec.file," ","b","/",sec.file>>>>
        \o (IF sec.kind = "noOld" THEN <<>>
            ELSE IF sec.kind = "oldOnly" THEN <<OldHeader(sec.kind, sec.file)>>
            ELSE <<OldHeader(sec.kind, sec.file), NewHeader(sec.kind, sec.file)>>
                     \o RenderHunks(sec.hunks))

RECURSIVE Render(_)
Render(d) ==
    IF d = <<>> THEN EmptyStr
    ELSE Join(SectionLines(d[1]), <<NL>>) \o <<NL>> \o Render(Tail(d))

HunkSeqs == UNION {[1..k -> HunkChoices] : k \in 0..MaxHunks}

Sections(file) ==
    {[file |-> file, kind |-> k, hunks |-> hs] : k \in HunkKinds, hs \in HunkSeqs}
        \cup {[file |-> file, kind |-> k, hunks |-> <<>>] : k \in BareKinds}

RECURSIVE TotalHunks(_)
TotalHunks(d) ==
    IF d = <<>> THEN 0 ELSE Len(d[1].hunks) + TotalHunks(Tail(d))

\* git writes one section per changed file, in path order
Diffs ==
    {<<>>}
        \cup {<<s>> : s \in Sections(FileNames[1])}
        \cup {d \in {<<s, t>> : s \in Sections(FileNames[1]),
                                t \in Sections(FileNames[2])} :
                TotalHunks(d) <= MaxHunks}

(***************************************************************************)
(* getChanges, step by step. pc is the position in the function:           *)
(*   start -> staged -> diffed -> files -> returned, or threw.             *)
(* `changes` is the Set<Change> of the code: its elements are fresh        *)
(* objects, which a Set compares by identity, so no add is ever dropped    *)
(* and the Set is the sequence of the records in insertion order.          *)
(* origin[r] = <<file section, pair of chunks>> that changes[r] came from. *)
(***************************************************************************)
Init ==
    /\ pc = "start"
    /\ calls = <<>>
    /\ thrown = "none"
    /\ errors = <<>>
    /\ input = <<>>
    /\ diffOut = EmptyStr
    /\ changedFiles = <<>>
    /\ fileIdx = 1
    /\ changes = <<>>
    /\ origin = <<>>

\* a call of the external tool and whether it succeeded
Call(cmd, ok) == [cmd |-> cmd, ok |-> ok]

\* lines 21-27 with the `throw error` of the catch block left out
StageChangesSwallow ==
    /\ pc = "start"
    /\ \E ok \in BOOLEAN :
          /\ calls' = Append(calls, Call("add", ok))
          /\ pc' = "staged"
          /\ errors' = IF ok THEN errors ELSE Append(errors, ErrStaging)
    /\ UNCHANGED <<thrown, input, diffOut, changedFiles, fileIdx, changes, origin>>

\* lines 21-27: execFileSync(git, ["add", "--all"])
StageChanges ==
    /\ pc = "start"
    /\ \E ok \in BOOLEAN :
          /\ calls' = Append(calls, Call("add", ok))
          /\ IF ok
             THEN pc' = "staged" /\ UNCHANGED <<thrown, errors>>
             ELSE /\ pc' = "threw"
                  /\ thrown' = "staging"
                  /\ errors' = Append(errors, ErrStaging)
    /\ UNCHANGED <<input, diffOut, changedFiles, fileIdx, changes, origin>>

\* lines 29-50: execFileSync(git, ["diff", ...])
CreateDiff ==
    /\ pc = "staged"
    /\ \E ok \in BOOLEAN :
          /\ calls' = Append(calls, Call("diff", ok))
          /\ IF ok
             THEN /\ \E d \in Diffs : input' = d /\ diffOut' = Render(d)
                  /\ pc' = "diffed"
                  /\ UNCHANGED <<thrown, errors>>
             ELSE /\ pc' = "threw"
                  /\ thrown' = "diff"
                  /\ errors' = Append(errors, ErrDiff)
                  /\ UNCHANGED <<input, diffOut>>
    /\ UNCHANGED <<changedFiles, fileIdx, changes, origin>>

\* lines 52-59
SplitFiles ==
    /\ pc = "diffed"
    /\ IF diffOut = EmptyStr
       THEN pc' = "returned" /\ UNCHANGED changedFiles
       ELSE /\ pc' = "files"
            /\ changedFiles' = FilterNonEmpty(Split(diffOut, DiffGit))
    /\ UNCHANGED <<calls, thrown, errors, input, diffOut, fileIdx, changes, origin>>

\* lines 61-175: one iteration of the loop over changedFiles
ParseNextFile ==
    /\ pc = "files"
    /\ fileIdx <= Len(changedFiles)
    /\ \E r \in {ParseFile(changedFiles[fileIdx])} :
           /\ errors' = errors \o r.errs
           /\ IF r.threw
              THEN /\ pc' = "threw"
                   /\ thrown' = "TypeError"
                   /\ UNCHANGED <<fileIdx, changes, origin>>
              ELSE /\ changes' = changes \o r.recs
                   /\ origin' = origin \o [k \in 1..Len(r.pairs) |->
                                               <<fileIdx, r.pairs[k]>>]
                   /\ fileIdx' = fileIdx + 1
                   /\ UNCHANGED <<pc, thrown>>
    /\ UNCHANGED <<calls, input, diffOut, changedFiles>>

\* line 176
Return ==
    /\ pc = "files"
    /\ fileIdx > Len(changedFiles)
    /\ pc' = "returned"
    /\ UNCHANGED <<calls, thrown, errors, input, diffOut, changedFiles, fileIdx,
                   changes, origin>>

Next ==
    \/ StageChanges
    \/ CreateDiff
    \/ SplitFiles
    \/ ParseNextFile
    \/ Return

Spec == Init /\ [][Next]_vars

(***************************************************************************)
(* Properties. A record changes[r] comes from file section SectionOf(r)    *)
(* of the raw diff and from the PairOf(r)-th (location, body) pair of it.  *)
(***************************************************************************)
Records == 1..Len(changes)
SectionOf(r) == input[origin[r][1]]
PairOf(r) == origin[r][2]
HunkOf(r) == SectionOf(r).hunks[PairOf(r)]

AllWellFormed(sec) == \A k \in 1..Len(sec.hunks) : sec.hunks[k].ok
WellFormedIn(sec) == Cardinality({k \in 1..Len(sec.hunks) : sec.hunks[k].ok})
RecordsOf(i) == Cardinality({r \in Records : origin[r][1] = i})

RECURSIVE WellFormedHunks(_)
WellFormedHunks(d) ==
    IF d = <<>> THEN 0 ELSE WellFormedIn(d[1]) + WellFormedHunks(Tail(d))

\* the count a side of a location header states: the written one, 1 if omitted
WrittenCount(count) == IF IsDefined(count) THEN Value(count) ELSE 1

\* the lines of a hunk body that carry one of the markers, each without its
\* marker and with a newline, in body order
RECURSIVE SideContent(_, _)
SideContent(body, markers) ==
    IF body = <<>> THEN EmptyStr
    ELSE (IF Head(body)[1] \in markers
          THEN Tail(Head(body)) \o <<NL>>
          ELSE EmptyStr) \o SideContent(Tail(body), markers)

\* C1: in a section whose old-file header is `--- /dev/null` every record has
\* fromFile absent, in a section whose new-file header is `+++ /dev/null`
\* every record has toFile absent, and in an ordinary section both are present.
C1_NullDeviceSides ==
    pc = "returned" =>
        \A r \in Records :
            /\ SectionOf(r).kind = "added" => ~IsDefined(changes[r].fromFile)
            /\ SectionOf(r).kind = "deleted" => ~IsDefined(changes[r].toFile)
            /\ SectionOf(r).kind = "modified" =>
                   /\ IsDefined(changes[r].fromFile)
                   /\ IsDefined(changes[r].toFile)

\* C2: in a section of well-formed hunks, the record of the k-th hunk carries
\* the start lines and line counts parsed from the k-th hunk's own location
\* header, for every k.
C2_OwnLocation ==
    pc = "returned" =>
        \A r \in Records :
            AllWellFormed(SectionOf(r)) =>
                LET m == LocationMatch(RenderHunkHeader(HunkOf(r)))
                    from == changes[r].fromFile
                    to == changes[r].toFile
                IN  /\ IsDefined(from) =>
                           /\ Value(from).start_line = NumberOf(Value(m.g1))
                           /\ Value(from).line_count = NumberOrOne(m.g2)
                    /\ IsDefined(to) =>
                           /\ Value(to).start_line = NumberOf(Value(m.g3))
                           /\ Value(to).line_count = NumberOrOne(m.g4)

\* C3: for a hunk of an ordinary file, fromFile.content is exactly the context
\* and removed lines of the body, each without its marker and followed by a
\* newline, and toFile.content the same over the context and added lines.
C3_ExactContent ==
    pc = "returned" =>
        \A r \in Records :
            (SectionOf(r).kind = "modified" /\ AllWellFormed(SectionOf(r))) =>
                /\ Value(changes[r].fromFile).content
                       = SideContent(HunkOf(r).body, {" ", "-"})
                /\ Value(changes[r].toFile).content
                       = SideContent(HunkOf(r).body, {" ", "+"})

\* C4: for a non-empty raw diff the returned collection has exactly one record
\* per well-formed hunk: the sum of the sections' hunks minus the hunks whose
\* location header is malformed.
C4_RecordCount ==
    (pc = "returned" /\ input # <<>>) =>
        Len(changes) = WellFormedHunks(input)

\* C5: staging is asked for before the diff; the diff is requested only after
\* staging succeeded; a failed call is the last call made and its failure is
\* thrown to the caller; a collection is returned only after both succeeded.
C5_StageThenDiff ==
    /\ \A i \in 1..Len(calls) :
          /\ calls[i].cmd = (IF i = 1 THEN "add" ELSE "diff")
          /\ i <= 2
          /\ ~calls[i].ok =>
                 /\ i = Len(calls)
                 /\ pc = "threw"
                 /\ thrown = (IF calls[i].cmd = "add" THEN "staging" ELSE "diff")
                 /\ changes = <<>>
    /\ pc \in {"diffed", "files", "returned"} =>
          calls = <<Call("add", TRUE), Call("diff", TRUE)>>

\* C5 witness: a collection with records is returned, after both calls
C5_Witness ==
    /\ pc = "returned"
    /\ Len(changes) > 0
    /\ calls = <<Call("add", TRUE), Call("diff", TRUE)>>

\* C6: every record has at least one of fromFile and toFile present.
C6_OneSidePresent ==
    \A r \in Records :
        IsDefined(changes[r].fromFile) \/ IsDefined(changes[r].toFile)

\* C6 witness: a returned record of a section classified as added, whose
\* fromFile is absent and whose toFile is present
C6_Witness ==
    /\ pc = "returned"
    /\ \E r \in Records :
          /\ ~IsDefined(changes[r].fromFile)
          /\ IsDefined(changes[r].toFile)

\* C7 as stated: every fragment of every returned record has start_line >= 1
\* and line_count >= 1.
C7_PositiveStartAndCount ==
    pc = "returned" =>
        \A r \in Records :
            /\ IsDefined(changes[r].fromFile) =>
                   /\ Value(changes[r].fromFile).start_line >= 1
                   /\ Value(changes[r].fromFile).line_count >= 1
            /\ IsDefined(changes[r].toFile) =>
                   /\ Value(changes[r].toFile).start_line >= 1
                   /\ Value(changes[r].toFile).line_count >= 1

\* C7 amended: every fragment has line_count >= 1, and start_line >= 1 unless
\* the location header the record was built from (the first of its section)
\* writes 0 as the start of that side, in which case start_line is 0.
C7_CountPositiveStartAsWritten ==
    \A r \in Records :
        /\ IsDefined(changes[r].fromFile) =>
               /\ Value(changes[r].fromFile).line_count >= 1
               /\ \/ Value(changes[r].fromFile).start_line >= 1
                  \/ /\ Value(changes[r].fromFile).start_line = 0
                     /\ SectionOf(r).hunks[1].oldStart = 0
        /\ IsDefined(changes[r].toFile) =>
               /\ Value(changes[r].toFile).line_count >= 1
               /\ \/ Value(changes[r].toFile).start_line >= 1
                  \/ /\ Value(changes[r].toFile).start_line = 0
                     /\ SectionOf(r).hunks[1].newStart = 0

\* C7 witness: a returned record built from `@@ -0,0 +1,2 @@`: the old side
\* has start_line 0 and, its count being written as 0, line_count 1
C7_Witness ==
    /\ pc = "returned"
    /\ \E r \in Records :
          /\ HunkOf(r).ok
          /\ HunkOf(r).oldStart = 0
          /\ HunkOf(r).oldCount = Some(0)
          /\ IsDefined(changes[r].fromFile)
          /\ Value(changes[r].fromFile).start_line = 0
          /\ Value(changes[r].fromFile).line_count = 1

\* C8: a section without an old-file header line, or without a new-file header
\* line after it, is skipped and getChanges does not abort: it returns, and
\* every other section still contributes its records.
IsBare(sec) == sec.kind \in BareKinds

C8_MissingHeaderSkipped ==
    (\E i \in 1..Len(input) : IsBare(input[i])) =>
        /\ thrown # "TypeError"
        /\ pc = "returned" =>
               \A i \in 1..Len(input) :
                   (~IsBare(input[i]) /\ AllWellFormed(input[i])) =>
                       RecordsOf(i) = Len(input[i].hunks)

\* C9: when a hunk's location header is malformed, an error is recorded and
\* only that hunk is skipped: every section still yields one record for each
\* of its well-formed hunks, before or after the malformed one.
HasMalformed(d) == TotalHunks(d) > WellFormedHunks(d)

C9_OnlyMalformedSkipped ==
    (pc = "returned" /\ HasMalformed(input)) =>
        /\ \A i \in 1..Len(input) : RecordsOf(i) = WellFormedIn(input[i])
        /\ \E k \in 1..Len(errors) : errors[k] = ErrLocation

\* C10: in a section with a single hunk, a fragment's line_count is the count
\* written in its side of the location header whenever one is written (0
\* included), and 1 when it is omitted; its start_line is the written start.
C10_SingleHunkCounts ==
    pc = "returned" =>
        \A r \in Records :
            (Len(SectionOf(r).hunks) = 1 /\ AllWellFormed(SectionOf(r))) =>
                /\ IsDefined(changes[r].fromFile) =>
                       /\ Value(changes[r].fromFile).start_line
                              = HunkOf(r).oldStart
                       /\ Value(changes[r].fromFile).line_count
                              = WrittenCount(HunkOf(r).oldCount)
                /\ IsDefined(changes[r].toFile) =>
                       /\ Value(changes[r].toFile).start_line
                              = HunkOf(r).newStart
                       /\ Value(changes[r].toFile).line_count
                              = WrittenCount(HunkOf(r).newCount)

====
